---------------------------- MODULE Spec2Model ----------------------------
(***************************************************************************)
(* Model of src/main.py: vacancy statistics gathered from the HeadHunter   *)
(* (hh) and SuperJob (sj) APIs.                                            *)
(*                                                                         *)
(* Python values are represented as follows.                               *)
(*   - An optional value is a sequence: None is << >>, a value v is <<v>>.  *)
(*   - A dict is a function from its keys; an absent key is a key outside  *)
(*     DOMAIN.  dict.get(k) is Get(d, k).                                  *)
(*   - Salary estimates are numbers counted in FIFTHS of a currency unit   *)
(*     (120.0 is 600), so that x * 1.2 and x * 0.8 are exact rationals;    *)
(*     the rounding of Python's floats is not modelled.                    *)
(*   - The running average salary / vacancy_count is the fraction          *)
(*     [num, den]; int() truncates it.                                     *)
(***************************************************************************)
EXTENDS Integers, Sequences, FiniteSets, TLC

VARIABLES
    \* predict_salary called on its own
    salary_from, salary_to, predicted, ppc,
    \* get_average_salary, one loop iteration per step
    asite, all_vacancies, idx, salary, vacancy_count, avarage_salary, apc,
    aresult,
    \* one fetch (get_hh_vacancies / get_sj_vacancies), one request per step
    site, page, vacancies, fpc, log, result,
    \* main
    mpc, lang, fetched, language_statistic, output, requests, got

predictVars == <<salary_from, salary_to, predicted, ppc>>
avgVars == <<asite, all_vacancies, idx, salary, vacancy_count,
             avarage_salary, apc, aresult>>
fetchVars == <<site, page, vacancies, fpc, log, result>>
mainVars == <<mpc, lang, fetched, language_statistic, output, requests, got>>
vars == <<predictVars, avgVars, fetchVars, mainVars>>

---------------------------------------------------------------------------
\* Bounds of the model.
MaxRecords == 2      \* longest record list given to get_average_salary
MaxPages == 2        \* most pages of records the mock API holds (one fetch)
MaxItems == 2        \* most records on one page (one fetch)
MainMaxPages == 1    \* the same two bounds for a whole run of main
MainMaxItems == 1

MaxAmount == 7       \* largest bound given to predict_salary on its own

\* Salary bounds in the records given to get_average_salary.
Amounts == {0, 100, 201}

\* Program constants.
TOP_LANGUAGE_VACANCIES == <<"JavaScript", "Python">>
HH_CURRENCY == "RUR"
SJ_CURRENCY == "rub"

---------------------------------------------------------------------------
\* Python values.
None == << >>
Some(v) == <<v>>
IsNone(o) == o = << >>
Get(d, k) == IF k \in DOMAIN d THEN d[k] ELSE None
EmptyDict == [k \in {} |-> None]

RECURSIVE Concat(_)
Concat(ss) == IF ss = << >> THEN << >> ELSE Head(ss) \o Concat(Tail(ss))

SeqsUpTo(S, n) == UNION {[1..k -> S] : k \in 0..n}

\* bool(x) of an optional number: None and 0 are false.
Truthy(o) == ~IsNone(o) /\ o[1] # 0

---------------------------------------------------------------------------
\* predict_salary: the estimate in fifths, or None.
predict_salary_swapped(from, to) ==
    IF Truthy(from) /\ Truthy(to)
    THEN Some(5 * (((to[1] - from[1]) \div 2) + from[1]))
    ELSE IF Truthy(from) THEN Some(4 * from[1])
    ELSE IF Truthy(to) THEN Some(6 * to[1])
    ELSE None

predict_salary(from, to) ==
    IF Truthy(from) /\ Truthy(to)
    THEN Some(5 * (((to[1] - from[1]) \div 2) + from[1]))
    ELSE IF Truthy(from) THEN Some(6 * from[1])
    ELSE IF Truthy(to) THEN Some(4 * to[1])
    ELSE None

PredictIdle ==
    /\ salary_from = None /\ salary_to = None /\ predicted = None
    /\ ppc = "idle"

AvgIdle ==
    /\ asite = "hh" /\ all_vacancies = << >> /\ idx = 0 /\ salary = 0
    /\ vacancy_count = 0 /\ avarage_salary = [num |-> 0, den |-> 1]
    /\ apc = "idle" /\ aresult = None

FetchIdle ==
    /\ site = "hh" /\ page = 0 /\ vacancies = << >> /\ fpc = "idle"
    /\ log = << >> /\ result = None

MainIdle ==
    /\ mpc = "idle" /\ lang = 0 /\ fetched = << >>
    /\ language_statistic = EmptyDict /\ output = << >>
    /\ requests = [hh |-> 0, sj |-> 0, failed |-> FALSE]
    /\ got = EmptyDict

---------------------------------------------------------------------------
\* predict_salary called on its own, on every pair of bounds.
PredictBounds == {None} \cup {Some(a) : a \in 0..MaxAmount}

InitPredict ==
    /\ salary_from \in PredictBounds /\ salary_to \in PredictBounds
    /\ predicted = None /\ ppc = "call"
    /\ AvgIdle /\ FetchIdle /\ MainIdle

PredictSalary ==
    /\ ppc = "call"
    /\ predicted' = predict_salary(salary_from, salary_to)
    /\ ppc' = "returned"
    /\ UNCHANGED <<salary_from, salary_to, avgVars, fetchVars, mainVars>>

NextPredict == PredictSalary
SpecPredict == InitPredict /\ [][NextPredict]_vars

\* C6 as stated: a bound is present when it is a number; the estimate is
\* lower + floor((upper - lower) / 2) when both bounds are present,
\* lower * 1.2 when only lower is, upper * 0.8 when only upper is, and None
\* when neither is.
C6_AsStated ==
    ppc = "returned" =>
        predicted =
            IF ~IsNone(salary_from) /\ ~IsNone(salary_to)
            THEN Some(5 * (salary_from[1]
                           + ((salary_to[1] - salary_from[1]) \div 2)))
            ELSE IF ~IsNone(salary_from) THEN Some(6 * salary_from[1])
            ELSE IF ~IsNone(salary_to) THEN Some(4 * salary_to[1])
            ELSE None

\* C6 amended: a bound is present when it is a number other than 0 (a bound
\* of 0 counts as absent); with that reading the estimate is
\* lower + floor((upper - lower) / 2) when both are present, lower * 1.2
\* when only lower is, upper * 0.8 when only upper is, None when neither is.
C6_PredictSalary ==
    ppc = "returned" =>
        LET lo == IF IsNone(salary_from) THEN 0 ELSE salary_from[1]
            up == IF IsNone(salary_to) THEN 0 ELSE salary_to[1]
        IN  /\ (lo # 0 /\ up # 0) =>
                predicted = Some(5 * (lo + ((up - lo) \div 2)))
            /\ (lo # 0 /\ up = 0) => predicted = Some(6 * lo)
            /\ (lo = 0 /\ up # 0) => predicted = Some(4 * up)
            /\ (lo = 0 /\ up = 0) => predicted = None

\* A lower bound of 0 with an upper bound of 5 gives 5 * 0.8 = 4.
C6_Witness ==
    /\ ppc = "returned"
    /\ salary_from = Some(0) /\ salary_to = Some(5)
    /\ predicted = Some(20)

---------------------------------------------------------------------------
\* The outcome of a call: an exception, or a returned value.
Raised == [raised |-> TRUE, value |-> None]
Returned(v) == [raised |-> FALSE, value |-> v]

\* predict_rub_salary_hh: vacancy['salary'] raises KeyError when the key is
\* absent, salary['currency'] raises TypeError when salary is None and
\* KeyError when the key is absent.
predict_rub_salary_hh_nofilter(vacancy) ==
    IF "salary" \notin DOMAIN vacancy THEN Raised
    ELSE LET s == vacancy["salary"]
         IN  IF IsNone(s) THEN Raised
             ELSE IF "currency" \notin DOMAIN s[1] THEN Raised
             ELSE Returned(predict_salary(Get(s[1], "from"),
                                          Get(s[1], "to")))

predict_rub_salary_hh(vacancy) ==
    IF "salary" \notin DOMAIN vacancy THEN Raised
    ELSE LET s == vacancy["salary"]
         IN  IF IsNone(s) THEN Raised
             ELSE IF "currency" \notin DOMAIN s[1] THEN Raised
             ELSE IF s[1]["currency"] = Some(HH_CURRENCY)
                  THEN Returned(predict_salary(Get(s[1], "from"),
                                               Get(s[1], "to")))
                  ELSE Returned(None)

\* predict_rub_salary_sj: vacancy['currency'] raises KeyError when the key
\* is absent.
predict_rub_salary_sj(vacancy) ==
    IF "currency" \notin DOMAIN vacancy THEN Raised
    ELSE IF vacancy["currency"] = Some(SJ_CURRENCY)
         THEN Returned(predict_salary(Get(vacancy, "payment_from"),
                                      Get(vacancy, "payment_to")))
         ELSE Returned(None)

predict_rub_salary(s, vacancy) ==
    IF s = "hh" THEN predict_rub_salary_hh(vacancy)
    ELSE predict_rub_salary_sj(vacancy)

\* The locals of get_average_salary before the loop.
AvgStart ==
    [salary |-> 0, vacancy_count |-> 0,
     avarage_salary |-> [num |-> 0, den |-> 1], raised |-> FALSE]

\* One iteration of the loop of get_average_salary.  salary is in fifths,
\* so salary / vacancy_count is the fraction salary / (5 * vacancy_count).
AvgBody_adds_one(st, s, vacancy) ==
    LET p == predict_rub_salary(s, vacancy)
    IN  IF p.raised THEN [st EXCEPT !.raised = TRUE]
        ELSE IF Truthy(p.value)
        THEN [st EXCEPT !.vacancy_count = @ + 1,
                        !.salary = @ + p.value[1],
                        !.avarage_salary =
                            [num |-> st.salary + p.value[1],
                             den |-> 5 * (st.vacancy_count + 1)]]
        ELSE IF st.vacancy_count # 0
        THEN [st EXCEPT !.avarage_salary =
                            [num |-> st.salary,
                             den |-> 5 * st.vacancy_count]]
        ELSE [st EXCEPT !.avarage_salary =
                            [num |-> @.num + @.den, den |-> @.den]]

AvgBody_average_before_add(st, s, vacancy) ==
    LET p == predict_rub_salary(s, vacancy)
    IN  IF p.raised THEN [st EXCEPT !.raised = TRUE]
        ELSE IF Truthy(p.value)
        THEN [st EXCEPT !.vacancy_count = @ + 1,
                        !.salary = @ + p.value[1],
                        !.avarage_salary =
                            [num |-> st.salary,
                             den |-> 5 * (st.vacancy_count + 1)]]
        ELSE IF st.vacancy_count # 0
        THEN [st EXCEPT !.avarage_salary =
                            [num |-> st.salary,
                             den |-> 5 * st.vacancy_count]]
        ELSE st

AvgBody(st, s, vacancy) ==
    LET p == predict_rub_salary(s, vacancy)
    IN  IF p.raised THEN [st EXCEPT !.raised = TRUE]
        ELSE IF Truthy(p.value)
        THEN [st EXCEPT !.vacancy_count = @ + 1,
                        !.salary = @ + p.value[1],
                        !.avarage_salary =
                            [num |-> st.salary + p.value[1],
                             den |-> 5 * (st.vacancy_count + 1)]]
        ELSE IF st.vacancy_count # 0
        THEN [st EXCEPT !.avarage_salary =
                            [num |-> st.salary,
                             den |-> 5 * st.vacancy_count]]
        ELSE st

\* int(x) of a fraction: truncation towards zero.
PyInt(fr) ==
    IF fr.num >= 0 THEN fr.num \div fr.den ELSE -((-fr.num) \div fr.den)

\* return int(avarage_salary), vacancy_count
AvgReturnValue(st) == <<PyInt(st.avarage_salary), st.vacancy_count>>

\* get_average_salary as one call.
RECURSIVE AvgLoop(_, _, _)
AvgLoop(st, s, vs) ==
    IF st.raised \/ vs = << >> THEN st
    ELSE AvgLoop(AvgBody(st, s, Head(vs)), s, Tail(vs))

get_average_salary(vs, s) ==
    LET st == AvgLoop(AvgStart, s, vs)
    IN  IF st.raised THEN Raised ELSE Returned(AvgReturnValue(st))

\* The records handed to get_average_salary: every combination of bounds
\* under the target currency and under another one, and the records with a
\* missing or null salary structure, currency or bounds.
OptAmounts == {None} \cup {Some(a) : a \in Amounts}

HHSalaries ==
    [currency : {Some(HH_CURRENCY), Some("USD")},
     from : OptAmounts, to : OptAmounts]
    \cup [currency : {None}, from : {Some(100)}, to : {None, Some(201)}]
    \cup {[from |-> Some(100), to |-> Some(201)],
          [currency |-> Some(HH_CURRENCY)]}

HHVacancies ==
    {EmptyDict, [salary |-> None]} \cup {[salary |-> Some(d)] : d \in HHSalaries}

SJVacancies ==
    [currency : {Some(SJ_CURRENCY), Some("usd")},
     payment_from : OptAmounts, payment_to : OptAmounts]
    \cup [currency : {None}, payment_from : {Some(100)},
          payment_to : {None, Some(201)}]
    \cup {[payment_from |-> Some(100), payment_to |-> Some(201)],
          [currency |-> Some(SJ_CURRENCY)]}

SiteVacancies(s) == IF s = "hh" THEN HHVacancies ELSE SJVacancies

InitAvg ==
    /\ asite \in {"hh", "sj"}
    /\ all_vacancies \in SeqsUpTo(SiteVacancies(asite), MaxRecords)
    /\ idx = 0
    /\ salary = AvgStart.salary
    /\ vacancy_count = AvgStart.vacancy_count
    /\ avarage_salary = AvgStart.avarage_salary
    /\ apc = "loop" /\ aresult = None
    /\ PredictIdle /\ FetchIdle /\ MainIdle

AvgLocals ==
    [salary |-> salary, vacancy_count |-> vacancy_count,
     avarage_salary |-> avarage_salary, raised |-> FALSE]

\* for vacancy in all_vacancies: one iteration
AvgIterate ==
    /\ apc = "loop" /\ idx < Len(all_vacancies)
    /\ LET st == AvgBody(AvgLocals, asite, all_vacancies[idx + 1])
       IN  /\ salary' = st.salary
           /\ vacancy_count' = st.vacancy_count
           /\ avarage_salary' = st.avarage_salary
           /\ apc' = IF st.raised THEN "raised" ELSE "loop"
    /\ idx' = idx + 1
    /\ UNCHANGED <<asite, all_vacancies, aresult,
                   predictVars, fetchVars, mainVars>>

\* the loop is exhausted: return
AvgReturn ==
    /\ apc = "loop" /\ idx = Len(all_vacancies)
    /\ aresult' = Some(AvgReturnValue(AvgLocals))
    /\ apc' = "returned"
    /\ UNCHANGED <<asite, all_vacancies, idx, salary, vacancy_count,
                   avarage_salary, predictVars, fetchVars, mainVars>>

NextAvg == AvgIterate \/ AvgReturn
SpecAvg == InitAvg /\ [][NextAvg]_vars

\* What the claims say about a record, read off the record itself.
CurrencyOf(s, vacancy) ==
    IF s = "sj" THEN Get(vacancy, "currency")
    ELSE IF IsNone(Get(vacancy, "salary")) THEN None
    ELSE Get(vacancy["salary"][1], "currency")

TargetCurrency(s) == IF s = "hh" THEN HH_CURRENCY ELSE SJ_CURRENCY

HasTargetCurrency(s, vacancy) ==
    CurrencyOf(s, vacancy) = Some(TargetCurrency(s))

\* The salary structure, the currency field (possibly null) and both bound
\* fields are there.
WellFormed(s, vacancy) ==
    IF s = "sj"
    THEN {"currency", "payment_from", "payment_to"} \subseteq DOMAIN vacancy
    ELSE /\ ~IsNone(Get(vacancy, "salary"))
         /\ {"currency", "from", "to"} \subseteq DOMAIN vacancy["salary"][1]

LowerOf(s, vacancy) ==
    IF s = "sj" THEN Get(vacancy, "payment_from")
    ELSE IF IsNone(Get(vacancy, "salary")) THEN None
    ELSE Get(vacancy["salary"][1], "from")

UpperOf(s, vacancy) ==
    IF s = "sj" THEN Get(vacancy, "payment_to")
    ELSE IF IsNone(Get(vacancy, "salary")) THEN None
    ELSE Get(vacancy["salary"][1], "to")

\* The estimate a record contributes, in fifths; 0 when it contributes none.
EstimateOf(s, vacancy) ==
    LET p == predict_rub_salary(s, vacancy)
    IN  IF p.raised \/ ~Truthy(p.value) THEN 0 ELSE p.value[1]

RECURSIVE SumEst(_, _)
SumEst(s, vs) ==
    IF vs = << >> THEN 0 ELSE EstimateOf(s, Head(vs)) + SumEst(s, Tail(vs))

RECURSIVE CountEst(_, _)
CountEst(s, vs) ==
    IF vs = << >> THEN 0
    ELSE (IF EstimateOf(s, Head(vs)) # 0 THEN 1 ELSE 0) + CountEst(s, Tail(vs))

\* C2: when get_average_salary returns vacancies_processed = 0 it returns
\* average_salary = 0; when every record has a non-matching currency or no
\* usable bound, it returns (0, 0).
C2_ZeroProcessedZeroAverage ==
    apc = "returned" =>
        /\ aresult[1][2] = 0 => aresult[1][1] = 0
        /\ (\A i \in 1..Len(all_vacancies) :
                \/ ~HasTargetCurrency(asite, all_vacancies[i])
                \/ /\ ~Truthy(LowerOf(asite, all_vacancies[i]))
                   /\ ~Truthy(UpperOf(asite, all_vacancies[i])))
           => aresult = Some(<<0, 0>>)

\* Two records, one in a foreign currency with both bounds and one in the
\* target currency without bounds, give (0, 0).
C2_Witness ==
    /\ apc = "returned" /\ Len(all_vacancies) = 2
    /\ ~HasTargetCurrency(asite, all_vacancies[1])
    /\ Truthy(LowerOf(asite, all_vacancies[1]))
    /\ HasTargetCurrency(asite, all_vacancies[2])
    /\ aresult = Some(<<0, 0>>)

\* C5: an iteration of get_average_salary over a record whose currency is
\* not the site's target code leaves vacancy_count and salary as they were,
\* at every position of the list and for all bounds of the record.
C5_CurrencyFilter ==
    [][(/\ apc = "loop" /\ idx < Len(all_vacancies)
        /\ ~HasTargetCurrency(asite, all_vacancies[idx + 1]))
       => (vacancy_count' = vacancy_count /\ salary' = salary)]_vars

\* A counted record followed by a skipped record in a foreign currency that
\* has both bounds.
C5_Witness ==
    /\ apc = "loop" /\ idx = 2 /\ vacancy_count = 1
    /\ WellFormed(asite, all_vacancies[2])
    /\ ~HasTargetCurrency(asite, all_vacancies[2])
    /\ ~IsNone(CurrencyOf(asite, all_vacancies[2]))
    /\ Truthy(LowerOf(asite, all_vacancies[2]))
    /\ Truthy(UpperOf(asite, all_vacancies[2]))

\* C7: get_average_salary never raises, whatever salary structure, currency
\* field or bounds the records lack.
C7_NeverRaises == apc # "raised"

\* C9: after any prefix of the list, vacancy_count is the number of records
\* of the prefix that gave an estimate, salary is the sum of these
\* estimates, and when vacancy_count > 0 the running average is
\* salary / vacancy_count; the returned average is that quotient truncated
\* to an integer.
C9_RunningAverage ==
    apc \in {"loop", "returned"} =>
        LET prefix == SubSeq(all_vacancies, 1, idx)
        IN  /\ vacancy_count = CountEst(asite, prefix)
            /\ salary = SumEst(asite, prefix)
            /\ vacancy_count > 0 =>
                   avarage_salary.num * 5 * vacancy_count
                       = salary * avarage_salary.den
            /\ (apc = "returned" /\ vacancy_count > 0) =>
                   aresult = Some(<<SumEst(asite, all_vacancies)
                                        \div (5 * vacancy_count),
                                    vacancy_count>>)

\* Two counted records whose average is not a whole number:
\* (120 + 160.8) / 2 = 140.4, returned as 140.
C9_Witness ==
    /\ apc = "returned" /\ vacancy_count = 2
    /\ salary = 600 + 804
    /\ aresult = Some(<<140, 2>>)

---------------------------------------------------------------------------
\* The API as the fetchers see it.  A response is a failure (non-success
\* status) or a JSON payload.  The API holds at most maxPages pages of
\* records: hh reports a page count up to maxPages, sj answers a request for
\* page maxPages or later with an empty list.
HHFailure == [ok |-> FALSE, pages |-> 0, items |-> << >>]
SJFailure == [ok |-> FALSE, objects |-> << >>]

HHResponses(maxPages, maxItems, recs) ==
    {HHFailure}
    \cup [ok : {TRUE}, pages : 0..maxPages, items : SeqsUpTo(recs, maxItems)]

SJResponses(maxPages, maxItems, recs, pg) ==
    {SJFailure}
    \cup [ok : {TRUE},
          objects : IF pg >= maxPages THEN {<< >>}
                    ELSE SeqsUpTo(recs, maxItems)]

\* One iteration of the loop of get_hh_vacancies on the response r to the
\* request for page pg: raise_for_status, break on page >= pages, extend.
\* (The sleep(10) at page 5 changes no state.)
HHIter_off_by_one(pg, vs, r) ==
    IF ~r.ok THEN [status |-> "raised", page |-> pg, vacancies |-> vs]
    ELSE IF pg > r.pages
    THEN [status |-> "returned", page |-> pg, vacancies |-> vs]
    ELSE [status |-> "loop", page |-> pg + 1, vacancies |-> vs \o r.items]

HHIter_no_status_check(pg, vs, r) ==
    IF ~r.ok \/ pg >= r.pages
    THEN [status |-> "returned", page |-> pg, vacancies |-> vs]
    ELSE [status |-> "loop", page |-> pg + 1, vacancies |-> vs \o r.items]

HHIter(pg, vs, r) ==
    IF ~r.ok THEN [status |-> "raised", page |-> pg, vacancies |-> vs]
    ELSE IF pg >= r.pages
    THEN [status |-> "returned", page |-> pg, vacancies |-> vs]
    ELSE [status |-> "loop", page |-> pg + 1, vacancies |-> vs \o r.items]

\* One iteration of the loop of get_sj_vacancies: raise_for_status, extend
\* on a non-empty 'objects', return otherwise.
SJIter(pg, vs, r) ==
    IF ~r.ok THEN [status |-> "raised", page |-> pg, vacancies |-> vs]
    ELSE IF r.objects # << >>
    THEN [status |-> "loop", page |-> pg + 1, vacancies |-> vs \o r.objects]
    ELSE [status |-> "returned", page |-> pg, vacancies |-> vs]

\* Two distinct records per site, enough to tell order and duplicates.
HHRecordA ==
    [salary |-> Some([currency |-> Some(HH_CURRENCY),
                      from |-> Some(100), to |-> Some(201)])]
HHRecordB ==
    [salary |-> Some([currency |-> Some("USD"),
                      from |-> Some(100), to |-> Some(201)])]
SJRecordA ==
    [currency |-> Some(SJ_CURRENCY),
     payment_from |-> Some(100), payment_to |-> Some(201)]
SJRecordB ==
    [currency |-> Some("usd"),
     payment_from |-> Some(100), payment_to |-> Some(201)]

\* ---- one fetch ----
InitFetch ==
    /\ site \in {"hh", "sj"}
    /\ page = 0 /\ vacancies = << >> /\ fpc = "loop"
    /\ log = << >> /\ result = None
    /\ PredictIdle /\ AvgIdle /\ MainIdle

FetchStep(r, it) ==
    /\ log' = Append(log, [page |-> page, resp |-> r])
    /\ page' = it.page
    /\ vacancies' = it.vacancies
    /\ fpc' = it.status
    /\ result' = IF it.status = "returned" THEN Some(it.vacancies) ELSE None
    /\ UNCHANGED <<site, predictVars, avgVars, mainVars>>

\* get_hh_vacancies: request one page and handle the response
FetchHHPage ==
    /\ site = "hh" /\ fpc = "loop"
    /\ \E r \in HHResponses(MaxPages, MaxItems, {HHRecordA, HHRecordB}) :
           FetchStep(r, HHIter(page, vacancies, r))

\* get_sj_vacancies: request one page and handle the response
FetchSJPage ==
    /\ site = "sj" /\ fpc = "loop"
    /\ \E r \in SJResponses(MaxPages, MaxItems, {SJRecordA, SJRecordB}, page) :
           FetchStep(r, SJIter(page, vacancies, r))

NextFetch == FetchHHPage \/ FetchSJPage
SpecFetch == InitFetch /\ [][NextFetch]_vars

\* The records of the first n responses of the log, concatenated.
LogRecords(n) ==
    Concat([i \in 1..n |-> IF site = "hh" THEN log[i].resp.items
                           ELSE log[i].resp.objects])

AllOk == \A i \in 1..Len(log) : log[i].resp.ok

\* C3: when the API serves N pages of records and then a terminal page (hh:
\* every response reports 'pages' = N; sj: the first empty 'objects' list is
\* on page N), the fetch ends at the request for page N and returns the
\* records of pages 0..N-1 concatenated in page order, each page in the
\* API's order; before that request it holds the records of the pages read.
C3_Pagination ==
    /\ (site = "hh" /\ log # << >> /\ AllOk
        /\ \A i \in 1..Len(log) : log[i].resp.pages = log[1].resp.pages)
       => LET N == log[1].resp.pages
          IN  /\ Len(log) <= N + 1
              /\ Len(log) <= N =>
                     fpc = "loop" /\ vacancies = LogRecords(Len(log))
              /\ Len(log) = N + 1 =>
                     fpc = "returned" /\ result = Some(LogRecords(N))
    /\ (site = "sj" /\ AllOk)
       => /\ \A i \in 1..Len(log) :
                 log[i].resp.objects = << >> =>
                     /\ i = Len(log)
                     /\ fpc = "returned"
                     /\ result = Some(LogRecords(i - 1))
          /\ (\A i \in 1..Len(log) : log[i].resp.objects # << >>) =>
                 fpc = "loop" /\ vacancies = LogRecords(Len(log))

\* hh: two pages of two records each, in different orders, then the
\* terminal page.
C3_Witness ==
    /\ site = "hh" /\ fpc = "returned" /\ Len(log) = 3 /\ AllOk
    /\ \A i \in 1..3 : log[i].resp.pages = 2
    /\ log[1].resp.items = <<HHRecordA, HHRecordB>>
    /\ log[2].resp.items = <<HHRecordB, HHRecordA>>
    /\ result = Some(<<HHRecordA, HHRecordB, HHRecordB, HHRecordA>>)

\* sj: two pages of records, then the empty page.
C3_WitnessSJ ==
    /\ site = "sj" /\ fpc = "returned" /\ Len(log) = 3 /\ AllOk
    /\ result = Some(<<SJRecordA, SJRecordB, SJRecordB, SJRecordA>>)

\* C4: a response with a non-success status ends the fetch with an error at
\* that request: it is the last request, the pages were requested once each
\* in order 0, 1, 2, ..., and nothing is returned to the caller.
C4_FailFast ==
    \A i \in 1..Len(log) :
        /\ log[i].page = i - 1
        /\ ~log[i].resp.ok =>
               /\ i = Len(log)
               /\ fpc = "raised"
               /\ result = None

\* A failure on the second page, after a page of records was accumulated.
C4_Witness ==
    /\ fpc = "raised" /\ Len(log) = 2 /\ ~log[2].resp.ok
    /\ vacancies # << >> /\ result = None

---------------------------------------------------------------------------
\* ---- main ----
\* mpc is the position in main: "start", "fetch" (the fetch of a language
\* inside gather_languages_statistics_*), "count" (the fetch made by
\* get_count_language_vacancies), "print" (the gather function returned),
\* "done", or the uncaught exception that ended the run: "http_error"
\* (raise_for_status), "config_error" (env.str), "error" (any other).
\* requests counts the HTTP requests per site and records a failed one; got
\* records, per language of the current site, whether its fetch returned
\* records.  Both are history variables.
Languages == {TOP_LANGUAGE_VACANCIES[i] : i \in 1..Len(TOP_LANGUAGE_VACANCIES)}

InitMain ==
    /\ mpc = "start" /\ lang = 0 /\ fetched = << >>
    /\ language_statistic = EmptyDict /\ output = << >>
    /\ requests = [hh |-> 0, sj |-> 0, failed |-> FALSE]
    /\ got = EmptyDict
    /\ site = "hh" /\ page = 0 /\ vacancies = << >> /\ fpc = "idle"
    /\ log = << >> /\ result = None
    /\ PredictIdle /\ AvgIdle

MainResponses(s, pg) ==
    IF s = "hh"
    THEN HHResponses(MainMaxPages, MainMaxItems, {HHRecordA, HHRecordB})
    ELSE SJResponses(MainMaxPages, MainMaxItems, {SJRecordA, SJRecordB}, pg)

SiteIter(s, pg, vs, r) ==
    IF s = "hh" THEN HHIter(pg, vs, r) ELSE SJIter(pg, vs, r)

\* if hh_vacancies: / if sj_vacancies:
HasVacancies_always(vs) == TRUE

HasVacancies(vs) == vs # << >>

\* language_statistic[language] = {...}
SetItem(d, k, v) == [x \in DOMAIN d \cup {k} |-> IF x = k THEN v ELSE d[x]]

\* make_vacancies_table: the title and the rows handed to the renderer.
make_vacancies_table(stat, title) == [title |-> title, rows |-> stat]

\* env.read_env(); env.str('SJ_SECRET_KEY'); print(sj_secret_key);
\* then gather_languages_statistics_hh starts on the first language.
MainStart ==
    /\ mpc = "start"
    /\ \E present \in BOOLEAN :
           IF present
           THEN /\ output' = <<[title |-> "key", rows |-> EmptyDict]>>
                /\ mpc' = "fetch" /\ lang' = 1
           ELSE /\ mpc' = "config_error"
                /\ UNCHANGED <<output, lang>>
    /\ UNCHANGED <<fetched, language_statistic, requests, got,
                   fetchVars, predictVars, avgVars>>

\* the next language of the loop, or the return of the gather function
NextLanguage ==
    /\ page' = 0 /\ vacancies' = << >>
    /\ IF lang < Len(TOP_LANGUAGE_VACANCIES)
       THEN lang' = lang + 1 /\ mpc' = "fetch"
       ELSE lang' = lang /\ mpc' = "print"

CountRequest(r) ==
    requests' = [requests EXCEPT ![site] = @ + 1,
                                 !.failed = @ \/ ~r.ok]

\* get_hh_vacancies(language) / get_sj_vacancies(secret_key, language) in
\* the gather loop: one request; on return, the test of the record list.
MainFetchPage ==
    /\ mpc = "fetch"
    /\ \E r \in MainResponses(site, page) :
        LET it == SiteIter(site, page, vacancies, r)
        IN  /\ CountRequest(r)
            /\ CASE it.status = "raised" ->
                      /\ mpc' = "http_error"
                      /\ UNCHANGED <<lang, page, vacancies, fetched, got>>
                 [] it.status = "loop" ->
                      /\ page' = it.page /\ vacancies' = it.vacancies
                      /\ UNCHANGED <<mpc, lang, fetched, got>>
                 [] it.status = "returned" ->
                      /\ got' = SetItem(got, TOP_LANGUAGE_VACANCIES[lang],
                                        it.vacancies # << >>)
                      /\ IF HasVacancies(it.vacancies)
                         THEN /\ fetched' = it.vacancies
                              /\ mpc' = "count"
                              /\ page' = 0 /\ vacancies' = << >>
                              /\ lang' = lang
                         ELSE /\ NextLanguage
                              /\ fetched' = it.vacancies
    /\ UNCHANGED <<language_statistic, output, site, fpc, log, result,
                   predictVars, avgVars>>

\* get_count_language_vacancies: the same fetch again, one request; on
\* return, len(), get_average_salary on the records of the first fetch and
\* the new entry of language_statistic.
MainCountPage ==
    /\ mpc = "count"
    /\ \E r \in MainResponses(site, page) :
        LET it == SiteIter(site, page, vacancies, r)
        IN  /\ CountRequest(r)
            /\ CASE it.status = "raised" ->
                      /\ mpc' = "http_error"
                      /\ UNCHANGED <<lang, page, vacancies,
                                     language_statistic>>
                 [] it.status = "loop" ->
                      /\ page' = it.page /\ vacancies' = it.vacancies
                      /\ UNCHANGED <<mpc, lang, language_statistic>>
                 [] it.status = "returned" ->
                      LET avg == get_average_salary(fetched, site)
                      IN  IF avg.raised
                          THEN /\ mpc' = "error"
                               /\ UNCHANGED <<lang, page, vacancies,
                                              language_statistic>>
                          ELSE /\ language_statistic' =
                                    SetItem(language_statistic,
                                        TOP_LANGUAGE_VACANCIES[lang],
                                        [vacancies_found |-> Len(it.vacancies),
                                         vacancies_processed |-> avg.value[2],
                                         average_salary |-> avg.value[1]])
                               /\ NextLanguage
    /\ UNCHANGED <<fetched, got, output, site, fpc, log, result,
                   predictVars, avgVars>>

\* print(make_vacancies_table(...)) with the mapping the gather function
\* returned; after the hh table, print() and gather_languages_statistics_sj.
MainPrint ==
    /\ mpc = "print"
    /\ IF site = "hh"
       THEN /\ output' = output
                  \o <<make_vacancies_table(language_statistic, "HH"),
                       [title |-> "", rows |-> EmptyDict]>>
            /\ site' = "sj" /\ lang' = 1 /\ mpc' = "fetch"
            /\ language_statistic' = EmptyDict /\ got' = EmptyDict
       ELSE /\ output' = Append(output,
                  make_vacancies_table(language_statistic, "SuperJob"))
            /\ mpc' = "done"
            /\ UNCHANGED <<site, lang, language_statistic, got>>
    /\ UNCHANGED <<fetched, requests, page, vacancies, fpc, log, result,
                   predictVars, avgVars>>

NextMain == MainStart \/ MainFetchPage \/ MainCountPage \/ MainPrint
SpecMain == InitMain /\ [][NextMain]_vars

\* C1: every entry of language_statistic has
\* vacancies_processed <= vacancies_found, whatever the API answers to the
\* two fetches of a language.
C1_ProcessedAtMostFound ==
    \A k \in DOMAIN language_statistic :
        language_statistic[k].vacancies_processed
            <= language_statistic[k].vacancies_found

\* C8: in the mapping a gather function returns, a language is a key
\* exactly when its fetch for that site returned at least one record.
C8_KeysAreLanguagesWithRecords ==
    mpc = "print" =>
        /\ DOMAIN got = Languages
        /\ DOMAIN language_statistic = {k \in Languages : got[k]}

\* The sj mapping with the first language left out and the second one in.
C8_Witness ==
    /\ mpc = "print" /\ site = "sj"
    /\ ~got[TOP_LANGUAGE_VACANCIES[1]]
    /\ got[TOP_LANGUAGE_VACANCIES[2]]
    /\ DOMAIN language_statistic = {TOP_LANGUAGE_VACANCIES[2]}

\* C10: once an HTTP request has failed the run is over: no request is
\* issued and nothing is printed any more, the table of the site being
\* processed is never printed, and after a failure in the hh phase the
\* SuperJob API has not been queried.
C10_FailureEndsRun ==
    /\ [](requests.failed =>
            /\ mpc = "http_error"
            /\ site = "hh" => (requests.sj = 0 /\ Len(output) = 1)
            /\ site = "sj" => (Len(output) = 3 /\ output[2].title = "HH"))
    /\ [][requests.failed =>
            (requests' = requests /\ output' = output /\ mpc' = mpc)]_vars

\* A failure on the count fetch of the second hh language, after the first
\* language got its entry.
C10_Witness ==
    /\ requests.failed /\ mpc = "http_error" /\ site = "hh" /\ lang = 2
    /\ fetched # << >>
    /\ TOP_LANGUAGE_VACANCIES[1] \in DOMAIN language_statistic
    /\ requests.sj = 0 /\ Len(output) = 1

=============================================================================
